---- MODULE Spec2Model ----
(***************************************************************************)
(* fail2ban_bot: the ingestion-and-aggregation engine.                     *)
(*                                                                         *)
(*   src/db_manager.py             the Ban Store (sqlite table "bans")     *)
(*   src/app/services/fail2ban.py  log scanner, count / address queries    *)
(*   src/app/services/geoip.py     geolocation resolver and its LRU cache  *)
(*   src/app/handlers/stats.py     the request path that calls the queries *)
(*   src/main.py                   startup: refresh, then the sync driver  *)
(*   src/app/middlewares/admin.py  the admin check before every handler    *)
(*   src/app/utils/plotting.py     the bars of a period                    *)
(*                                                                         *)
(* Time is counted in ticks; TicksPerSec ticks make one second and         *)
(* SecPerHour seconds one hour (scaled down from 10^6 microseconds and     *)
(* 3600 seconds).  A datetime is a tick count; the text "%Y-%m-%d          *)
(* %H:%M:%S" of a datetime is its whole-second count, whose numeric order  *)
(* is the lexicographic order sqlite compares the ts column by.            *)
(*                                                                         *)
(* None is the empty sequence <<>>, Some(x) the one-element sequence <<x>>.*)
(*                                                                         *)
(* Three specifications share the state and the actions and differ in the  *)
(* lines the daemon writes: Spec (ingestion over a growing and rotated     *)
(* log), SpecQuery (the queries beside ingestion, stamps in any order),    *)
(* SpecGeo (the geo cache, any configured size, four addresses).  In them  *)
(* startup is over and one iteration of the driver loop is one step.       *)
(* SpecRefresh is startup: update_geoip_db step by step, then the creation *)
(* of the driver task.  SpecDriver is the driver task step by step beside  *)
(* a log that grows and may become unreadable; SpecDriverFair adds the     *)
(* scheduling of the event loop.                                           *)
(* SpecStore is the DBManager object from any end of its __init__ to its   *)
(* close; SpecCrash a healthy store with failing INSERTs and a process     *)
(* that is terminated inside a cycle; SpecFallback the queries without a   *)
(* store beside a log that cannot always be read; SpecParse and SpecPlot   *)
(* call parse_log_timestamp and generate_single_period_plot on any input.  *)
(* SpecStartup is on_startup from the first statement of update_geoip_db   *)
(* to the cycles of the task; SpecCache the geo cache beside a lookup file *)
(* that arrives late; SpecLoop the cycle line by line beside a handler;    *)
(* SpecAdmin the admin middleware on any event.                            *)
(***************************************************************************)
EXTENDS Integers, Sequences, FiniteSets

VARIABLES
    log,          \* the lines of config.LOG_FILE, oldest first
    rows,         \* table bans in rowid order
    now,          \* datetime.now(), in ticks
    db_manager,   \* the handle the handlers and the scanner are given
    conn,         \* DBManager.conn is open and table bans exists
    geo_cache,    \* geoip.geo_cache: OrderedDict, oldest entry first
    geoip_db,     \* the file at config.GEOIP_DB_PATH: its content and the age of its mtime in days
    config,       \* Settings: the fields the engine could read
    touch_order,  \* history: every address ever looked up, least recently touched first
    log_synced,   \* history: a sync cycle has read the log and the log has not changed since
    pc,           \* where on_startup and the update_geoip_db it awaits stand
    tar,          \* the file at db_dir / "GeoLite2-City.tar.gz"
    alerts,       \* the calls of _send_telegram_alert, oldest first
    err,          \* the exception raised inside the try block of update_geoip_db
    download_started, \* history: download_file has been called
    file0,        \* history: geoip_db as it was when update_geoip_db was called
    drivers,      \* the periodic_log_sync tasks, each at its position
    log_ok,       \* config.LOG_FILE can be opened and read
    read_lines,   \* sync_log_to_db: the list readlines() returned, None outside a scan
    outcomes,     \* history: the ways the calls of sync_log_to_db have ended so far
    init_failed,  \* history: DBManager.__init__ has logged "Failed to initialize DB"
    has_conn,     \* the attribute DBManager.conn exists
    closes,       \* history: how each call of DBManager.close() has ended, oldest first
    rows0,        \* history: table bans as the cycle found it in which the process was terminated
    parse,        \* the last call of parse_log_timestamp: its line and what came of it
    plot,         \* the last call of generate_single_period_plot: its arguments and its bars
    views,        \* history: how the query handlers have found the cycles of the scanner
    passed        \* history: the calls of AdminMiddleware.__call__ and how each has ended

\* the refresh of the lookup file at startup
boot == <<pc, tar, alerts, err, download_started, file0>>
\* the periodic sync driver
sched == <<drivers, log_ok, read_lines, outcomes>>
\* the DBManager object and the process it lives in
store == <<init_failed, has_conn, closes, rows0>>
\* calls of the functions that read no state
calls == <<parse, plot, views, passed>>

vars == <<log, rows, now, db_manager, conn, geo_cache, geoip_db, config,
          touch_order, log_synced, boot, sched, store, calls>>

---------------------------------------------------------------------------
(* Bounds of the model *)

MaxLog == 2          \* lines the log file holds at most
MaxNow == 5          \* the clock stops here (ticks)
MaxRows == 3         \* rows table bans holds at most
TicksPerSec == 2     \* clock resolution below the second
SecPerHour == 1      \* one hour, in seconds
MAX_CACHE_SIZE == 2  \* geoip.py:18 sets 1000
STALE_DAYS == 2      \* geoip.py:88 compares the age with timedelta(days=28)
MaxAge == 3          \* the oldest modification time, in days before today
MaxCloses == 2       \* calls of DBManager.close() in one process
MaxPlotEvents == 2
MaxUser == 3   \* ban events a plot is drawn from at most

None == <<>>
Some(x) == <<x>>

\* the tokens the address pattern matches; "999.0.0.4" matches it and is no address
IPs == {"10.0.0.1", "10.0.0.2", "10.0.0.3", "999.0.0.4"}
Malformed == {"999.0.0.4"}
LogIPs == {"10.0.0.1", "10.0.0.2"}
Jails == {"sshd", "nginx"}
Hours == 0..2
CacheSizes == 1..MAX_CACHE_SIZE
Ages == 0..MaxAge
UpdateDays == 1..MaxAge

Min(S) == CHOOSE x \in S : \A y \in S : x <= y
Range(s) == {s[i] : i \in 1..Len(s)}

---------------------------------------------------------------------------
(* Time *)

\* datetime.strftime("%Y-%m-%d %H:%M:%S"): the sub-second part is dropped
strftime(dt) == dt \div TicksPerSec

\* datetime.strptime(text, "%Y-%m-%d %H:%M:%S"): a datetime on the whole second
strptime(text) == text * TicksPerSec

\* timedelta(hours=h)
timedelta(h) == h * SecPerHour * TicksPerSec

---------------------------------------------------------------------------
(* Log lines.  A line "<stamp> fail2ban.actions: NOTICE [<jail>] <word>    *)
(* <token>" is the record of its four parts: stamp is None or Some(second),*)
(* jail is None or Some(name), word is the action word and token the text  *)
(* after it: "Ban", "Unban", "ban" (lower case, between spaces) or a word    *)
(* that holds none of them, such as "Found".  Each substring test of the   *)
(* code is the set of words whose line holds that substring.               *)

\* "Ban " in line
InBanCap(line) == line.word = "Ban"
\* " ban " in line
InBanSp(line) == line.word = "ban"
\* "ban " in line: also the tail of "Unban "
InBanLow(line) == line.word \in {"ban", "Unban"}
\* "Unban " in line
InUnbanCap(line) == line.word = "Unban"
\* " unban " in line
InUnbanSp(line) == FALSE

\* [0-9]{1,3}(?:\.[0-9]{1,3}){3}|[0-9a-fA-F:]+ matched at the token
IpToken(line) == IF line.token \in IPs THEN Some(line.token) ELSE None

\* re.search(r"(Ban|Unban) (<ip>)", line).group(2)
SyncIpMatch(line) ==
    IF line.word \in {"Ban", "Unban"} THEN IpToken(line) ELSE None

\* re.search(r"Ban (<ip>)", line).group(1); the B is upper case, so "Unban " does not match
BanIpMatch(line) == IF line.word = "Ban" THEN IpToken(line) ELSE None

\* re.search(r"\[([^\]]+)\]", line)
JailOf(line) == IF line.jail = None THEN "Unknown" ELSE line.jail[1]

\* What the two patterns of parse_log_timestamp find in a text: plain is the
\* first match of "YYYY-MM-DD HH:MM:SS" with an optional ",digits", iso the
\* first match of "YYYY-MM-DDTHH:MM:SS" with an optional "Z"; None when the
\* pattern matches nowhere.  A match is the second its digits spell (text),
\* whether they spell a date-time at all (valid: "2023-13-45 25:61:61" does
\* not), and whether the optional tail is there.
Matches ==
    {None} \cup {Some(m) : m \in [text : 0..strftime(MaxNow), valid : BOOLEAN,
                                   tail : BOOLEAN]}
Texts == [plain : Matches, iso : Matches]

\* the patterns searched in a line of the log: its stamp is in the first format
StampText(line) ==
    [plain |-> IF line.stamp = None THEN None
               ELSE Some([text |-> line.stamp[1], valid |-> TRUE, tail |-> TRUE]),
     iso   |-> None]

\* mutant: strptime is called outside a try block
ParseCatches_none(e) == FALSE

\* except ValueError
ParseCatches(e) == e = "ValueError"

\* datetime.strptime(match.group(1), format): group 1 leaves the tail out
strptime_match(m) ==
    IF m.valid THEN [exc |-> None, value |-> Some(strptime(m.text))]
    ELSE [exc |-> Some("ValueError"), value |-> None]

\* parse_log_timestamp on a text: the exception that leaves it and the
\* datetime it returns
parse_text(t) ==
    LET first == IF t.plain = None THEN [exc |-> None, value |-> None]
                 ELSE strptime_match(t.plain[1])
        second == IF t.iso = None THEN [exc |-> None, value |-> None]
                  ELSE strptime_match(t.iso[1])
    IN  IF first.value # None THEN first
        ELSE IF first.exc # None /\ ~ParseCatches(first.exc[1]) THEN first
        ELSE IF second.value # None THEN second
        ELSE IF second.exc # None /\ ~ParseCatches(second.exc[1]) THEN second
        ELSE [exc |-> None, value |-> None]

parse_log_timestamp(line) == parse_text(StampText(line)).value

---------------------------------------------------------------------------
(* Ban Store: db_manager.py.  Every method catches its own exceptions; on  *)
(* a DBManager whose __init__ failed each execute raises and is caught.    *)

\* mutant: the datetime is compared with the stored text without formatting it
ban_exists_unformatted(rs, ok, ts, ip) ==
    /\ ok
    /\ \E i \in 1..Len(rs) : rs[i].ts = ts /\ rs[i].ip = ip

\* mutant: the lookup never finds a row
ban_exists_never(rs, ok, ts, ip) == FALSE

ban_exists(rs, ok, ts, ip) ==
    /\ ok
    /\ \E i \in 1..Len(rs) : rs[i].ts = strftime(ts) /\ rs[i].ip = ip

\* mutant: the new row goes in front of the rows there are
insert_ban_front(rs, ok, ip, jail, action, country, city, ts) ==
    IF ok
    THEN <<[ts |-> strftime(ts), ip |-> ip, jail |-> jail,
            action |-> action, country |-> country, city |-> city]>> \o rs
    ELSE rs

insert_ban(rs, ok, ip, jail, action, country, city, ts) ==
    IF ok
    THEN Append(rs, [ts |-> strftime(ts), ip |-> ip, jail |-> jail,
                     action |-> action, country |-> country, city |-> city])
    ELSE rs

fetch_bans(since) ==
    IF ~conn THEN <<>>
    ELSE IF since = None THEN rows
    ELSE SelectSeq(rows, LAMBDA r : r.ts >= strftime(since[1]))

\* the statement of __init__ that raises: none of them, sqlite3.connect, one of
\* the two PRAGMA statements, or the CREATE TABLE inside _create_tables
InitFaults == {"none", "connect", "pragma", "tables"}

\* DBManager.__init__: the object it leaves.  existed: the file held table bans
\* before.  _create_tables catches its own exception, so the "Failed to
\* initialize DB" clause runs for connect and for the PRAGMA statements only;
\* after a PRAGMA has raised the connection is assigned and open, and
\* _create_tables has not been called.
DBManager_init(fault, existed) ==
    [init_failed |-> fault \in {"connect", "pragma"},
     has_conn    |-> fault # "connect",
     conn        |-> CASE fault = "none"    -> TRUE
                       [] fault = "connect" -> FALSE
                       [] OTHER             -> existed]

\* mutant: close has no except clause
CloseCatches_none(e) == FALSE

\* close: except Exception
CloseCatches(e) == TRUE

\* close: self.conn.close() raises AttributeError when __init__ has assigned no
\* connection; sqlite3 closes a closed connection without complaint
close_outcome(has) ==
    IF has THEN "ok"
    ELSE IF CloseCatches("AttributeError") THEN "ok" ELSE "AttributeError"

\* close: the connection it leaves open
close_conn(open) == FALSE

---------------------------------------------------------------------------
(* Geolocation resolver: geoip.py *)

\* the file at config.GEOIP_DB_PATH is a complete lookup file
Readable == geoip_db.content \in {"old", "new"}

\* with geoip2.database.Reader(path) as reader: reader.city(ip): the exception
\* it raises ("none" when it returns) and the names the response holds
ReaderCity(ip) ==
    IF ~Readable
    THEN [exc |-> IF geoip_db.content = "none" THEN "FileNotFoundError"
                  ELSE "InvalidDatabaseError",
          country |-> None, city |-> None]
    ELSE IF ip \in Malformed
    THEN [exc |-> "ValueError", country |-> None, city |-> None]
    ELSE IF ip = "10.0.0.1"
    THEN [exc |-> "none", country |-> Some("Germany"), city |-> Some("Berlin")]
    ELSE IF ip = "10.0.0.2"
    THEN [exc |-> "none", country |-> Some("France"), city |-> None]
    ELSE [exc |-> "AddressNotFoundError", country |-> None, city |-> None]

\* name or "Unknown"
OrUnknown(name) == IF name = None THEN "Unknown" ELSE name[1]

\* mutant: only the address-not-found clause is there
LookupCatches_notfound(exc) == exc = "AddressNotFoundError"

\* except geoip2.errors.AddressNotFoundError / except Exception
LookupCatches(exc) ==
    exc \in {"AddressNotFoundError", "ValueError", "FileNotFoundError",
             "InvalidDatabaseError"}

\* get_geo_info on a miss: the exception that leaves it, None when it returns
LookupRaises(ip) ==
    LET r == ReaderCity(ip)
    IN  IF r.exc = "none" \/ LookupCatches(r.exc) THEN None ELSE Some(r.exc)

\* get_geo_info on a miss: result as the try block and its handlers leave it
Lookup(ip) ==
    LET r == ReaderCity(ip)
    IN  IF r.exc = "none"
        THEN [country |-> OrUnknown(r.country), city |-> OrUnknown(r.city), ip |-> ip]
        ELSE [country |-> "Unknown", city |-> "Unknown", ip |-> ip]

CacheKeys(c) == {c[i].ip : i \in 1..Len(c)}
CacheIndex(c, ip) == CHOOSE i \in 1..Len(c) : c[i].ip = ip
Without(s, i) == [j \in 1..(Len(s) - 1) |-> IF j < i THEN s[j] ELSE s[j + 1]]

\* mutant: a hit leaves the entry where it is
move_to_end_noop(c, ip) == c

\* OrderedDict.move_to_end(ip)
move_to_end(c, ip) == Append(Without(c, CacheIndex(c, ip)), c[CacheIndex(c, ip)])

\* mutant: only what the lookup file has answered is kept
get_geo_info_cache_answered(c, ip) ==
    IF ip \in CacheKeys(c) THEN move_to_end(c, ip)
    ELSE IF ReaderCity(ip).exc # "none" THEN c
    ELSE LET c1 == Append(c, Lookup(ip))
         IN  IF Len(c1) > MAX_CACHE_SIZE THEN Tail(c1) ELSE c1

\* get_geo_info: the cache it leaves
get_geo_info_cache(c, ip) ==
    IF ip \in CacheKeys(c) THEN move_to_end(c, ip)
    ELSE IF LookupRaises(ip) # None THEN c
    ELSE LET c1 == Append(c, Lookup(ip))
         IN  IF Len(c1) > MAX_CACHE_SIZE THEN Tail(c1) ELSE c1

\* get_geo_info: the exception that leaves it, None when it returns
get_geo_info_raises(c, ip) ==
    IF ip \in CacheKeys(c) THEN None ELSE LookupRaises(ip)

\* get_geo_info: the record it returns
get_geo_info(c, ip) ==
    IF ip \in CacheKeys(c) THEN c[CacheIndex(c, ip)] ELSE Lookup(ip)

\* history of touches: ip moves to the most recent end
Touch(order, ip) == Append(SelectSeq(order, LAMBDA x : x # ip), ip)

---------------------------------------------------------------------------
(* Log scanner: fail2ban.py sync_log_to_db.  The coroutine holds no await, *)
(* so one cycle is one step.  st is the store, the cache and the touch     *)
(* history as the loop has left them so far.                               *)

SyncAction(line) ==
    IF InBanCap(line) \/ InBanSp(line) THEN Some("Ban")
    ELSE IF InUnbanCap(line) \/ InUnbanSp(line) THEN Some("Unban")
    ELSE None

\* ts = parse_log_timestamp(line) or datetime.now(); a cycle reads the clock
\* within one tick
SyncTs(line) ==
    IF parse_log_timestamp(line) = None THEN now ELSE parse_log_timestamp(line)[1]

\* one pass of the loop body; ok: the INSERT of this pass goes through
SyncLineOk(line, st, ok) ==
    IF SyncAction(line) = None \/ SyncIpMatch(line) = None THEN st
    ELSE LET ip == SyncIpMatch(line)[1]
             ts == SyncTs(line)
         IN  IF ban_exists(st.rows, conn, ts, ip) THEN st
             ELSE LET geo_info == get_geo_info(st.cache, ip)
                  IN  [rows  |-> insert_ban(st.rows, ok, ip, JailOf(line),
                                            SyncAction(line)[1], geo_info.country,
                                            geo_info.city, ts),
                       cache |-> get_geo_info_cache(st.cache, ip),
                       order |-> Touch(st.order, ip)]

SyncLine(line, st) == SyncLineOk(line, st, conn)

\* mutant: the loop ends at the first INSERT that fails
RECURSIVE SyncLoopBad_stop(_, _, _, _)
SyncLoopBad_stop(lines, i, st, bad) ==
    IF i > Len(lines) \/ i \in bad THEN st
    ELSE SyncLoopBad_stop(lines, i + 1, SyncLineOk(lines[i], st, conn), bad)

\* the loop from line i on; bad: the passes whose INSERT raises inside insert_ban,
\* which logs it and returns
RECURSIVE SyncLoopBad(_, _, _, _)
SyncLoopBad(lines, i, st, bad) ==
    IF i > Len(lines) THEN st
    ELSE SyncLoopBad(lines, i + 1, SyncLineOk(lines[i], st, conn /\ i \notin bad), bad)

SyncLoop(lines, i, st) == SyncLoopBad(lines, i, st, {})

\* mutant: a log that cannot be read is scanned as if it could
ReadLog_blind(ok, l) == Some(l)

\* the line holds bytes that are not UTF-8: the text file object raises
\* UnicodeDecodeError when it comes to decode them
Decodable(line) == line.word # "0xFF"

\* try: with open(config.LOG_FILE) as f: lines = f.readlines(); None: the
\* except clause has returned
ReadLog(ok, l) ==
    IF ok /\ \A i \in 1..Len(l) : Decodable(l[i]) THEN Some(l) ELSE None

\* with open(config.LOG_FILE) as f: for line in f: the lines the loop is given
\* before the file ends or the read raises; a line is a chunk of the decoder
ReadPrefix(ok, l) ==
    IF ~ok THEN <<>>
    ELSE SubSeq(l, 1, Min({i \in 1..Len(l) : ~Decodable(l[i])} \cup {Len(l) + 1}) - 1)

\* the loop over the lines read, with the store, the cache and the touch
\* history as they are now
ScanLines(l) ==
    SyncLoop(l, 1, [rows |-> rows, cache |-> geo_cache, order |-> touch_order])

sync_log_to_db ==
    IF db_manager = "None" \/ ReadLog(log_ok, log) = None
    THEN [rows |-> rows, cache |-> geo_cache, order |-> touch_order]
    ELSE ScanLines(ReadLog(log_ok, log)[1])

---------------------------------------------------------------------------
(* Aggregation: fail2ban.py count_bans_in_period and extract_banned_ips *)

\* r[3] and "ban" in r[3].lower()
IsBanRow(r) == r.action \in {"Ban", "Unban", "ban", "unban"}

\* mutant: the list is returned as collected
fromkeys_all(ips, i, acc) == ips

\* list(dict.fromkeys(ips))
RECURSIVE fromkeys(_, _, _)
fromkeys(ips, i, acc) ==
    IF i > Len(ips) THEN acc
    ELSE fromkeys(ips, i + 1,
                  IF ips[i] \in Range(acc) THEN acc ELSE Append(acc, ips[i]))

\* mutant: the comparison with the cutoff is turned round
RECURSIVE CountBack_flipped(_, _, _)
CountBack_flipped(lines, i, since_dt) ==
    IF i = 0 THEN 0
    ELSE IF ~InBanCap(lines[i]) /\ ~InBanLow(lines[i])
         THEN CountBack_flipped(lines, i - 1, since_dt)
    ELSE IF parse_log_timestamp(lines[i]) = None
         THEN CountBack_flipped(lines, i - 1, since_dt)
    ELSE IF parse_log_timestamp(lines[i])[1] <= since_dt
         THEN 1 + CountBack_flipped(lines, i - 1, since_dt)
    ELSE 0

\* mutant: the scan also stops at a line without a timestamp
RECURSIVE CountBack_stampless(_, _, _)
CountBack_stampless(lines, i, since_dt) ==
    IF i = 0 THEN 0
    ELSE IF ~InBanCap(lines[i]) /\ ~InBanLow(lines[i])
         THEN CountBack_stampless(lines, i - 1, since_dt)
    ELSE IF parse_log_timestamp(lines[i]) = None THEN 0
    ELSE IF parse_log_timestamp(lines[i])[1] >= since_dt
         THEN 1 + CountBack_stampless(lines, i - 1, since_dt)
    ELSE 0

\* the reverse scan of the fallback, from line i down; it stops at the first
\* stamped line older than since_dt
RECURSIVE CountBack(_, _, _)
CountBack(lines, i, since_dt) ==
    IF i = 0 THEN 0
    ELSE IF ~InBanCap(lines[i]) /\ ~InBanLow(lines[i])
         THEN CountBack(lines, i - 1, since_dt)
    ELSE IF parse_log_timestamp(lines[i]) = None
         THEN CountBack(lines, i - 1, since_dt)
    ELSE IF parse_log_timestamp(lines[i])[1] >= since_dt
         THEN 1 + CountBack(lines, i - 1, since_dt)
    ELSE 0

\* count_bans_in_period, the branch "if db_manager:"
CountFromDb(since_dt) == Len(SelectSeq(fetch_bans(Some(since_dt)), IsBanRow))

\* count_bans_in_period, the log file fallback
CountFromLog(since_dt) ==
    IF ReadLog(log_ok, log) = None THEN 0
    ELSE CountBack(ReadLog(log_ok, log)[1], Len(log), since_dt)

count_bans_in_period(hours) ==
    LET since_dt == now - timedelta(hours)
    IN  IF db_manager # "None" THEN CountFromDb(since_dt) ELSE CountFromLog(since_dt)

\* since_dt = datetime.now() - timedelta(hours=since_hours) if since_hours else None
SinceDt(since_hours) ==
    IF since_hours = None \/ since_hours = Some(0) THEN None
    ELSE Some(now - timedelta(since_hours[1]))

\* the forward scan of the fallback: does the line contribute its address
FallbackKeeps(line, since_dt) ==
    /\ InBanCap(line) \/ InBanLow(line)
    /\ BanIpMatch(line) # None
    /\ \/ since_dt = None
       \/ /\ parse_log_timestamp(line) # None
          /\ parse_log_timestamp(line)[1] >= since_dt[1]

Column(s, f) == [i \in 1..Len(s) |-> s[i][f]]

\* extract_banned_ips, the branch "if db_manager:": ips before de-duplication
IpsFromDb(since_dt) == Column(SelectSeq(fetch_bans(since_dt), IsBanRow), "ip")

\* extract_banned_ips, the log file fallback: ips before de-duplication
IpsFromLog(since_dt) ==
    Column(SelectSeq(ReadPrefix(log_ok, log), LAMBDA l : FallbackKeeps(l, since_dt)),
           "token")

extract_banned_ips(since_hours) ==
    LET since_dt == SinceDt(since_hours)
    IN  IF db_manager # "None"
        THEN fromkeys(IpsFromDb(since_dt), 1, <<>>)
        ELSE fromkeys(IpsFromLog(since_dt), 1, <<>>)

---------------------------------------------------------------------------
(* The request path: handlers/stats.py *)

\* plotting.py generate_world_map_plot: geo_data = [get_geo_info(ip, config) for ip in ips]
RECURSIVE MapLoop(_, _, _)
MapLoop(ips, i, st) ==
    IF i > Len(ips) THEN st
    ELSE MapLoop(ips, i + 1,
                 [cache |-> get_geo_info_cache(st.cache, ips[i]),
                  order |-> Touch(st.order, ips[i])])

---------------------------------------------------------------------------
(* The state machine *)

Stamps == {None} \cup {Some(s) : s \in 0..strftime(now)}

\* what the banning daemon may write: in Spec, in SpecQuery and in SpecGeo
SyncLines ==
    [stamp : {None, Some(strftime(now))}, jail : {Some(j) : j \in Jails},
     word : {"Ban"}, token : {"10.0.0.1"}]
    \cup [stamp : {None, Some(strftime(now))}, jail : {Some("sshd")},
          word : {"Unban"}, token : {"10.0.0.1"}]
    \cup [stamp : {None}, jail : {None}, word : {"Found"}, token : {"time"}]

QueryLines ==
    [stamp : Stamps, jail : {Some("sshd")}, word : {"Ban", "Unban"}, token : LogIPs]
    \cup [stamp : Stamps, jail : {None}, word : {"ban"}, token : {"time"}]

GeoLines ==
    [stamp : {Some(strftime(now))}, jail : {Some("sshd")}, word : {"Ban"}, token : IPs]

\* main.py:74 has built the DBManager: the connection is there unless
\* sqlite3.connect has raised; no process has been terminated, no call of a
\* stateless function is on record
AsBuilt ==
    /\ init_failed = (db_manager = "DBManager" /\ ~conn)
    /\ has_conn = conn
    /\ closes = <<>>
    /\ rows0 = None
    /\ parse = None
    /\ plot = None
    /\ views = {}
    /\ passed = {}

\* on_startup has returned: the refresh is over, one driver task is at the
\* head of its loop
Started ==
    /\ pc = "started"
    /\ tar = "none"
    /\ alerts = <<>>
    /\ err = None
    /\ download_started = FALSE
    /\ file0 = geoip_db
    /\ drivers = <<"cycle">>
    /\ log_ok = TRUE
    /\ read_lines = None
    /\ outcomes = {}

Init ==
    /\ log = <<>>
    /\ rows = <<>>
    /\ now = 0
    /\ \/ db_manager = "DBManager" /\ conn \in BOOLEAN
       \/ db_manager = "None" /\ conn = FALSE
    /\ geo_cache = <<>>
    /\ geoip_db = [content |-> "old", age |-> 0]
    /\ config = [GEOIP_CACHE_SIZE |-> MAX_CACHE_SIZE, GEOIP_UPDATE_DAYS |-> STALE_DAYS,
                 MAXMIND_LICENSE_KEY |-> None]
    /\ touch_order = <<>>
    /\ log_synced = FALSE
    /\ Started
    /\ AsBuilt

\* the banning daemon writes a line to the log
AppendLine(line) ==
    /\ Len(log) < MaxLog
    /\ log' = Append(log, line)
    /\ log_synced' = FALSE
    /\ UNCHANGED <<store, calls, rows, now, db_manager, conn, geo_cache, geoip_db, config,
                   touch_order, boot, sched>>

\* logrotate starts a new log file
RotateLog ==
    /\ log # <<>>
    /\ log' = <<>>
    /\ log_synced' = FALSE
    /\ UNCHANGED <<store, calls, rows, now, db_manager, conn, geo_cache, geoip_db, config,
                   touch_order, boot, sched>>

Tick ==
    /\ now < MaxNow
    /\ now' = now + 1
    /\ UNCHANGED <<store, calls, log, rows, db_manager, conn, geo_cache, geoip_db, config,
                   touch_order, log_synced, boot, sched, store, calls>>

\* one cycle of periodic_log_sync
Sync ==
    /\ Len(sync_log_to_db.rows) <= MaxRows
    /\ rows' = sync_log_to_db.rows
    /\ geo_cache' = sync_log_to_db.cache
    /\ touch_order' = sync_log_to_db.order
    /\ log_synced' = (db_manager # "None" /\ ReadLog(log_ok, log) # None)
    /\ UNCHANGED <<store, calls, log, now, db_manager, conn, geoip_db, config, boot, sched>>

\* handle_geo_command (since_hours = None) and handle_period_geo_stats:
\* extract_banned_ips, then generate_world_map_plot when the list is not empty
HandleGeo(since_hours) ==
    LET ips == extract_banned_ips(since_hours)
        st == MapLoop(ips, 1, [cache |-> geo_cache, order |-> touch_order])
    IN  /\ geo_cache' = st.cache
        /\ touch_order' = st.order
        /\ UNCHANGED <<store, calls, log, rows, now, db_manager, conn, geoip_db, config, log_synced,
                       boot, sched>>

SinceHours == {None} \cup {Some(h) : h \in Hours}

Next ==
    \/ \E line \in SyncLines : AppendLine(line)
    \/ RotateLog
    \/ Tick
    \/ Sync

Spec == Init /\ [][Next]_vars

NextQuery ==
    \/ \E line \in QueryLines : AppendLine(line)
    \/ Tick
    \/ Sync
    \/ \E sh \in SinceHours : HandleGeo(sh)

SpecQuery == Init /\ [][NextQuery]_vars

\* any configured cache size, the lookup file present or not
InitGeo ==
    /\ log = <<>>
    /\ rows = <<>>
    /\ now = 0
    /\ \/ db_manager = "DBManager" /\ conn \in BOOLEAN
       \/ db_manager = "None" /\ conn = FALSE
    /\ geo_cache = <<>>
    /\ geoip_db \in {[content |-> "old", age |-> 0], [content |-> "none", age |-> 0]}
    /\ config \in [GEOIP_CACHE_SIZE : CacheSizes, GEOIP_UPDATE_DAYS : {STALE_DAYS},
                    MAXMIND_LICENSE_KEY : {None}]
    /\ touch_order = <<>>
    /\ log_synced = FALSE
    /\ Started
    /\ AsBuilt

\* the cache does not read the clock: SpecGeo leaves it where it is
NextGeo ==
    \/ \E line \in GeoLines : AppendLine(line)
    \/ RotateLog
    \/ Sync
    \/ \E sh \in SinceHours : HandleGeo(sh)

SpecGeo == InitGeo /\ [][NextGeo]_vars

---------------------------------------------------------------------------
(* The refresh of the lookup file: geoip.py update_geoip_db, awaited once by *)
(* main.py on_startup before the driver task is created.  The file's age is *)
(* counted in days; the refresh is over within the day.  An archive written  *)
(* in full is "mmdb" (it holds a member ending in .mmdb), "nommdb" (it holds *)
(* none) or "unreadable" (tarfile cannot open it); "stale" is an archive a   *)
(* run that was terminated has left behind.                                  *)

Archives == {"mmdb", "nommdb", "unreadable"}

\* db_path.exists() and datetime.now() - mtime < timedelta(days=28)
Fresh(file, cfg) == file.content # "none" /\ file.age < STALE_DAYS

\* config.MAXMIND_LICENSE_KEY is truthy
HasKey(cfg) == cfg.MAXMIND_LICENSE_KEY # None

\* mutant: a message that is not delivered raises
AlertRaises_undelivered(delivered) == ~delivered

\* _send_telegram_alert: every exception of bot.send_message is caught in it
AlertRaises(delivered) == FALSE

\* mutant: only errors of the file system are caught
RefreshCatches_oserror(e) == e \in {"OSError", "FileNotFoundError"}

\* except Exception as e
RefreshCatches(e) == TRUE

\* one call of _send_telegram_alert
Alert(kind, delivered) == [kind |-> kind, delivered |-> delivered]

\* mutant: the archive stays where it is
Unlink_keep(t) == t

\* if tar_path.exists(): tar_path.unlink()
Unlink(t) == "none"

\* tar.extract(member, path=db_dir) with member.name = db_path.name: the
\* canonical path is opened for writing, and holds what was written so far
ExtractTarget(part) == [content |-> part, age |-> 0]

\* the guard and the credential test, up to the first await of a download
Gate ==
    /\ pc = "boot"
    /\ \/ /\ Fresh(geoip_db, config)
          /\ pc' = "returned"
          /\ UNCHANGED alerts
       \/ /\ ~Fresh(geoip_db, config) /\ ~HasKey(config)
          /\ \E d \in BOOLEAN :
                /\ alerts' = Append(alerts, Alert("fail", d))
                /\ pc' = IF AlertRaises(d) THEN "raised" ELSE "returned"
       \/ /\ ~Fresh(geoip_db, config) /\ HasKey(config)
          /\ pc' = "get"
          /\ UNCHANGED alerts
    /\ UNCHANGED <<store, calls, log, rows, now, db_manager, conn, geo_cache, geoip_db, config,
                   touch_order, log_synced, tar, err, download_started, file0, sched>>

\* download_file: the request; it fails, or the archive path is opened for writing
Get ==
    /\ pc = "get"
    /\ download_started' = TRUE
    /\ \/ \E e \in {"ClientResponseError", "TimeoutError"} :
             /\ err' = Some(e)
             /\ pc' = "except"
             /\ UNCHANGED tar
       \/ /\ tar' = "partial"
          /\ pc' = "downloading"
          /\ UNCHANGED err
    /\ UNCHANGED <<store, calls, log, rows, now, db_manager, conn, geo_cache, geoip_db, config,
                   touch_order, log_synced, alerts, file0, sched>>

\* download_file: the chunks; the transfer breaks off, or the archive is complete
Downloading ==
    /\ pc = "downloading"
    /\ \/ \E e \in {"ClientPayloadError", "TimeoutError"} :
             /\ err' = Some(e)
             /\ pc' = "except"
             /\ UNCHANGED tar
       \/ /\ tar' \in Archives
          /\ pc' = "extract"
          /\ UNCHANGED err
    /\ UNCHANGED <<store, calls, log, rows, now, db_manager, conn, geo_cache, geoip_db, config,
                   touch_order, log_synced, alerts, download_started, file0, sched>>

\* tarfile.open, the search for the member, tar.extract; the extracted file
\* takes the modification time the archive gives the member
Extract ==
    /\ pc = "extract"
    /\ \/ /\ tar = "unreadable"
          /\ err' = Some("ReadError")
          /\ pc' = "except"
          /\ UNCHANGED geoip_db
       \/ /\ tar = "nommdb"
          /\ err' = Some("FileNotFoundError")
          /\ pc' = "except"
          /\ UNCHANGED geoip_db
       \/ /\ tar = "mmdb"
          /\ \E a \in Ages : geoip_db' = [content |-> "new", age |-> a]
          /\ pc' = "notify"
          /\ UNCHANGED err
       \/ /\ tar = "mmdb"
          /\ geoip_db' = ExtractTarget("partial")
          /\ err' = Some("OSError")
          /\ pc' = "except"
    /\ UNCHANGED <<store, calls, log, rows, now, db_manager, conn, geo_cache, config,
                   touch_order, log_synced, tar, alerts, download_started, file0, sched>>

\* the success message, inside the try block
NotifyOk ==
    /\ pc = "notify"
    /\ \E d \in BOOLEAN :
          /\ alerts' = Append(alerts, Alert("ok", d))
          /\ pc' = IF AlertRaises(d) THEN "except" ELSE "finally"
          /\ err' = IF AlertRaises(d) THEN Some("TelegramAPIError") ELSE err
    /\ UNCHANGED <<store, calls, log, rows, now, db_manager, conn, geo_cache, geoip_db, config,
                   touch_order, log_synced, tar, download_started, file0, sched>>

\* the except clause: the failure message; "unwind": the exception goes on
\* through the finally clause and out of the function
Except ==
    /\ pc = "except"
    /\ \/ /\ RefreshCatches(err[1])
          /\ \E d \in BOOLEAN :
                /\ alerts' = Append(alerts, Alert("fail", d))
                /\ pc' = IF AlertRaises(d) THEN "unwind" ELSE "finally"
       \/ /\ ~RefreshCatches(err[1])
          /\ pc' = "unwind"
          /\ UNCHANGED alerts
    /\ UNCHANGED <<store, calls, log, rows, now, db_manager, conn, geo_cache, geoip_db, config,
                   touch_order, log_synced, tar, err, download_started, file0, sched>>

\* the finally clause: if tar_path.exists(): tar_path.unlink()
Finally ==
    /\ pc \in {"finally", "unwind"}
    /\ tar' = Unlink(tar)
    /\ pc' = IF pc = "unwind" THEN "raised" ELSE "returned"
    /\ UNCHANGED <<store, calls, log, rows, now, db_manager, conn, geo_cache, geoip_db, config,
                   touch_order, log_synced, alerts, err, download_started, file0, sched>>

Running == {"boot", "get", "downloading", "extract", "notify", "except",
            "finally", "unwind"}

\* the process is terminated; while tar.extract is writing, the canonical
\* path keeps what has been written
Kill ==
    /\ pc \in Running
    /\ pc' = "killed"
    /\ \/ UNCHANGED geoip_db
       \/ /\ pc = "extract" /\ tar = "mmdb"
          /\ geoip_db' = ExtractTarget("partial")
    /\ UNCHANGED <<store, calls, log, rows, now, db_manager, conn, geo_cache, config,
                   touch_order, log_synced, tar, alerts, err, download_started,
                   file0, sched>>

\* mutant: the task is created and on_startup is run again
StartTask_again ==
    /\ pc = "returned"
    /\ drivers' = Append(drivers, "cycle")
    /\ UNCHANGED <<store, calls, log, rows, now, db_manager, conn, geo_cache, geoip_db, config,
                   touch_order, log_synced, boot, log_ok, read_lines, outcomes>>

\* on_startup after the await: asyncio.create_task(periodic_log_sync(...))
StartTask ==
    /\ pc = "returned"
    /\ pc' = "started"
    /\ drivers' = Append(drivers, "cycle")
    /\ UNCHANGED <<store, calls, log, rows, now, db_manager, conn, geo_cache, geoip_db, config,
                   touch_order, log_synced, tar, alerts, err, download_started,
                   file0, log_ok, read_lines, outcomes>>

\* startup: the lookup file missing or of any age, any configured threshold,
\* a key or none, an archive left behind or none
AtStartup ==
    /\ log = <<>>
    /\ rows = <<>>
    /\ now = 0
    /\ db_manager = "DBManager"
    /\ conn = TRUE
    /\ geo_cache = <<>>
    /\ geoip_db \in {[content |-> "none", age |-> 0]}
                      \cup [content : {"old"}, age : Ages]
    /\ config \in [GEOIP_CACHE_SIZE : {MAX_CACHE_SIZE}, GEOIP_UPDATE_DAYS : UpdateDays,
                    MAXMIND_LICENSE_KEY : {None, Some("key")}]
    /\ touch_order = <<>>
    /\ log_synced = FALSE
    /\ tar \in {"none", "stale"}
    /\ alerts = <<>>
    /\ err = None
    /\ download_started = FALSE
    /\ file0 = geoip_db
    /\ drivers = <<>>
    /\ log_ok = TRUE
    /\ read_lines = None
    /\ outcomes = {}
    /\ AsBuilt

\* the runs of update_geoip_db that have made the directory of the file
InitRefresh == AtStartup /\ pc = "boot"

NextRefresh ==
    \/ Gate
    \/ Get
    \/ Downloading
    \/ Extract
    \/ NotifyOk
    \/ Except
    \/ Finally
    \/ Kill
    \/ StartTask

SpecRefresh == InitRefresh /\ [][NextRefresh]_vars

---------------------------------------------------------------------------
(* The periodic sync driver: fail2ban.py periodic_log_sync, one task made by *)
(* on_startup.  A driver is at "cycle" (about to call sync_log_to_db), at    *)
(* "scan" (sync_log_to_db has read the file and runs its loop), at "sleep"   *)
(* (in asyncio.sleep) or "dead" (an exception has ended the task).  The      *)
(* scan holds no await: no other task of the event loop runs before it ends, *)
(* while the daemon goes on writing the log.                                 *)

\* mutant: the loop has no except clause
DriverCatches_none(e) == FALSE

\* except Exception as e
DriverCatches(e) == TRUE

\* mutant: the event loop hands out control at any moment
LoopFree_always == TRUE

\* no coroutine is between two awaits
LoopFree == \A i \in 1..Len(drivers) : drivers[i] # "scan"

DriverLines ==
    [stamp : {Some(strftime(now))}, jail : {Some("sshd")}, word : {"Ban"},
     token : LogIPs]

\* sync_log_to_db up to the loop: the falsy handle and the read of the file
CycleBegin(i) ==
    /\ drivers[i] = "cycle"
    /\ LoopFree
    /\ IF db_manager = "None"
       THEN /\ drivers' = [drivers EXCEPT ![i] = "sleep"]
            /\ UNCHANGED <<store, calls, read_lines, outcomes>>
       ELSE IF ReadLog(log_ok, log) = None
       THEN /\ drivers' = [drivers EXCEPT ![i] = "sleep"]
            /\ outcomes' = outcomes \cup {"unreadable"}
            /\ UNCHANGED read_lines
       ELSE /\ drivers' = [drivers EXCEPT ![i] = "scan"]
            /\ read_lines' = ReadLog(log_ok, log)
            /\ UNCHANGED outcomes
    /\ UNCHANGED <<store, calls, log, rows, now, db_manager, conn, geo_cache, geoip_db, config,
                   touch_order, log_synced, boot, log_ok>>

\* the loop over the lines read, and the return into asyncio.sleep
CycleEnd(i) ==
    /\ drivers[i] = "scan"
    /\ LET st == ScanLines(read_lines[1])
       IN  /\ rows' = st.rows
           /\ geo_cache' = st.cache
           /\ touch_order' = st.order
    /\ log_synced' = (log = read_lines[1])
    /\ read_lines' = None
    /\ outcomes' = outcomes \cup {"done"}
    /\ drivers' = [drivers EXCEPT ![i] = "sleep"]
    /\ UNCHANGED <<store, calls, log, now, db_manager, conn, geoip_db, config, boot, log_ok>>

\* an exception leaves the loop after k lines; periodic_log_sync logs it and
\* goes on to asyncio.sleep
CycleRaise(i) ==
    /\ drivers[i] = "scan"
    /\ \E k \in 0..Len(read_lines[1]) :
          LET st == ScanLines(SubSeq(read_lines[1], 1, k))
          IN  /\ rows' = st.rows
              /\ geo_cache' = st.cache
              /\ touch_order' = st.order
    /\ log_synced' = FALSE
    /\ read_lines' = None
    /\ outcomes' = outcomes \cup {"raised"}
    /\ drivers' = [drivers EXCEPT ![i] = IF DriverCatches("Exception")
                                          THEN "sleep" ELSE "dead"]
    /\ UNCHANGED <<store, calls, log, now, db_manager, conn, geoip_db, config, boot, log_ok>>

\* asyncio.sleep(interval_seconds) is over
Wake(i) ==
    /\ drivers[i] = "sleep"
    /\ drivers' = [drivers EXCEPT ![i] = "cycle"]
    /\ UNCHANGED <<store, calls, log, rows, now, db_manager, conn, geo_cache, geoip_db, config,
                   touch_order, log_synced, boot, log_ok, read_lines, outcomes>>

\* the log file can no longer be opened or read
LogFails ==
    /\ log_ok
    /\ log_ok' = FALSE
    /\ UNCHANGED <<store, calls, log, rows, now, db_manager, conn, geo_cache, geoip_db, config,
                   touch_order, log_synced, boot, drivers, read_lines, outcomes>>

\* the log file can be read again
LogRepaired ==
    /\ ~log_ok
    /\ log_ok' = TRUE
    /\ UNCHANGED <<store, calls, log, rows, now, db_manager, conn, geo_cache, geoip_db, config,
                   touch_order, log_synced, boot, drivers, read_lines, outcomes>>

\* update_geoip_db has returned; the log can be read or not
InitDriver ==
    /\ log = <<>>
    /\ rows = <<>>
    /\ now = 0
    /\ \/ db_manager = "DBManager" /\ conn \in BOOLEAN
       \/ db_manager = "None" /\ conn = FALSE
    /\ geo_cache = <<>>
    /\ geoip_db = [content |-> "old", age |-> 0]
    /\ config = [GEOIP_CACHE_SIZE |-> MAX_CACHE_SIZE, GEOIP_UPDATE_DAYS |-> STALE_DAYS,
                 MAXMIND_LICENSE_KEY |-> None]
    /\ touch_order = <<>>
    /\ log_synced = FALSE
    /\ pc = "returned"
    /\ tar = "none"
    /\ alerts = <<>>
    /\ err = None
    /\ download_started = FALSE
    /\ file0 = geoip_db
    /\ drivers = <<>>
    /\ log_ok \in BOOLEAN
    /\ read_lines = None
    /\ outcomes = {}
    /\ AsBuilt

\* the steps of the driver task and of the startup that makes it
DriverStep ==
    \/ StartTask
    \/ \E i \in 1..Len(drivers) : CycleBegin(i)
    \/ \E i \in 1..Len(drivers) : CycleEnd(i)
    \/ \E i \in 1..Len(drivers) : CycleRaise(i)
    \/ \E i \in 1..Len(drivers) : Wake(i)

NextDriver ==
    \/ \E line \in DriverLines : AppendLine(line)
    \/ LogFails
    \/ LogRepaired
    \/ StartTask
    \/ \E i \in 1..Len(drivers) : CycleBegin(i)
    \/ \E i \in 1..Len(drivers) : CycleEnd(i)
    \/ \E i \in 1..Len(drivers) : CycleRaise(i)
    \/ \E i \in 1..Len(drivers) : Wake(i)

SpecDriver == InitDriver /\ [][NextDriver]_vars

\* the event loop runs a task that is ready, and a sleep comes to its end
SpecDriverFair == SpecDriver /\ WF_vars(DriverStep)

---------------------------------------------------------------------------
(* Access control: SpecAdmin is AdminMiddleware.__call__ on the events the   *)
(* dispatcher hands to the message and callback_query observers.             *)

UserIds == 1..MaxUser

\* config.ADMINS, handed to both middlewares
ADMINS == {1, 2}

\* data.get("event_from_user"): a user, or None for an event without one
EventUsers == {None} \cup {Some(id) : id \in UserIds}

\* logger.warning("Access denied for user %s (ID: %d).", user.full_name,
\* user.id): the arguments are evaluated before the call
DeniedLogRaises(user) == user = None

\* if not user or user.id not in self.admin_ids
Denied(user) == IF user = None THEN TRUE ELSE user[1] \notin ADMINS

\* AdminMiddleware.__call__: whether the handler is invoked and how the call
\* ends; handler_raises: what the handler does when it is invoked
AdminMiddleware_call(user, handler_raises) ==
    IF Denied(user)
    THEN [handler |-> FALSE,
          end |-> IF DeniedLogRaises(user) THEN "raised" ELSE "returned"]
    ELSE [handler |-> TRUE,
          end |-> IF handler_raises THEN "raised" ELSE "returned"]

\* the dispatcher passes an event of an observer through its middleware
Deliver(kind, user, handler_raises) ==
    /\ passed' = passed \cup
          {[kind |-> kind, user |-> user,
            handler |-> AdminMiddleware_call(user, handler_raises).handler,
            end |-> AdminMiddleware_call(user, handler_raises).end]}
    /\ UNCHANGED <<log, rows, now, db_manager, conn, geo_cache, geoip_db, config,
                   touch_order, log_synced, boot, sched, store, parse, plot, views>>

InitAdmin == Init /\ db_manager = "DBManager" /\ conn

NextAdmin ==
    \E kind \in {"message", "callback_query"}, user \in EventUsers,
       handler_raises \in BOOLEAN : Deliver(kind, user, handler_raises)

SpecAdmin == InitAdmin /\ [][NextAdmin]_vars

---------------------------------------------------------------------------
(* The cycle line by line: SpecLoop is SpecDriver on a healthy store with    *)
(* the loop of sync_log_to_db taken one line at a time, beside a query       *)
(* handler on the same event loop.                                           *)

\* one pass of the loop "for line in lines": ban_exists, get_geo_info and
\* insert_ban of the first line not yet visited
CycleLine(i) ==
    /\ drivers[i] = "scan"
    /\ read_lines[1] # <<>>
    /\ LET st == SyncLine(Head(read_lines[1]),
                          [rows |-> rows, cache |-> geo_cache, order |-> touch_order])
       IN  /\ rows' = st.rows
           /\ geo_cache' = st.cache
           /\ touch_order' = st.order
    /\ read_lines' = Some(Tail(read_lines[1]))
    /\ log_synced' = FALSE
    /\ UNCHANGED <<store, calls, log, now, db_manager, conn, geoip_db, config, boot,
                   drivers, log_ok, outcomes>>

\* the loop is over: sync_log_to_db returns into asyncio.sleep
CycleReturn(i) ==
    /\ drivers[i] = "scan"
    /\ read_lines[1] = <<>>
    /\ read_lines' = None
    /\ outcomes' = outcomes \cup {"done"}
    /\ drivers' = [drivers EXCEPT ![i] = "sleep"]
    /\ UNCHANGED <<store, calls, log, rows, now, db_manager, conn, geo_cache, geoip_db,
                   config, touch_order, log_synced, boot, log_ok>>

\* where a handler finds the scanner: inside a cycle, between the read of the
\* log and the return, or outside
View == IF \E i \in 1..Len(drivers) : drivers[i] = "scan" THEN "inside" ELSE "outside"

\* handle_comparison_stats after "await query.answer": the two calls of
\* count_bans_in_period; the event loop resumes it when nothing else runs
Query ==
    /\ LoopFree
    /\ views' = views \cup {View}
    /\ UNCHANGED <<log, rows, now, db_manager, conn, geo_cache, geoip_db, config,
                   touch_order, log_synced, boot, sched, store, parse, plot, passed>>

InitLoop == InitDriver /\ db_manager = "DBManager" /\ conn /\ log_ok

NextLoop ==
    \/ \E line \in DriverLines : AppendLine(line)
    \/ RotateLog
    \/ StartTask
    \/ \E i \in 1..Len(drivers) : CycleBegin(i)
    \/ \E i \in 1..Len(drivers) : CycleLine(i)
    \/ \E i \in 1..Len(drivers) : CycleReturn(i)
    \/ \E i \in 1..Len(drivers) : Wake(i)
    \/ Query

SpecLoop == InitLoop /\ [][NextLoop]_vars

---------------------------------------------------------------------------
(* The cache beside a lookup file that arrives late: SpecCache is SpecGeo    *)
(* started without a lookup file, which a later run of update_geoip_db on    *)
(* the same path installs while this process keeps its cache.                *)

\* update_geoip_db run to its success by another start of the program:
\* tar.extract has written the lookup file
Reinstall ==
    /\ ~Readable
    /\ \E a \in Ages : geoip_db' = [content |-> "new", age |-> a]
    /\ UNCHANGED <<store, calls, log, rows, now, db_manager, conn, geo_cache, config,
                   touch_order, log_synced, boot, sched>>

InitCache ==
    /\ InitGeo
    /\ db_manager = "DBManager" /\ conn
    /\ geoip_db.content = "none"
    /\ config.GEOIP_CACHE_SIZE = MAX_CACHE_SIZE

NextCache ==
    \/ \E line \in GeoLines : AppendLine(line)
    \/ RotateLog
    \/ Sync
    \/ HandleGeo(None)
    \/ Reinstall

SpecCache == InitCache /\ [][NextCache]_vars

---------------------------------------------------------------------------
(* Startup as a whole: SpecStartup is on_startup from the call of            *)
(* update_geoip_db to the cycles of the task it creates.                     *)

\* update_geoip_db before the try block:
\* db_dir.mkdir(exist_ok=True, parents=True); a directory that is there is
\* left alone, so the call can raise only when the lookup file is missing
Enter ==
    /\ pc = "enter"
    /\ \/ pc' = "boot"
       \/ /\ geoip_db.content = "none"
          /\ pc' = "raised"
    /\ UNCHANGED <<store, calls, log, rows, now, db_manager, conn, geo_cache, geoip_db, config,
                   touch_order, log_synced, tar, alerts, err, download_started,
                   file0, sched>>

InitStartup == AtStartup /\ pc = "enter"

NextStartup ==
    \/ \E line \in DriverLines : AppendLine(line)
    \/ Enter
    \/ Gate
    \/ Get
    \/ Downloading
    \/ Extract
    \/ NotifyOk
    \/ Except
    \/ Finally
    \/ Kill
    \/ StartTask
    \/ \E i \in 1..Len(drivers) : CycleBegin(i)
    \/ \E i \in 1..Len(drivers) : CycleEnd(i)
    \/ \E i \in 1..Len(drivers) : Wake(i)

SpecStartup == InitStartup /\ [][NextStartup]_vars

\* the event loop runs what is ready: the refresh, the creation of the task,
\* the cycles
SpecStartupFair ==
    SpecStartup /\ WF_vars(Enter \/ Gate \/ Get \/ Downloading \/ Extract \/ NotifyOk
                              \/ Except \/ Finally \/ StartTask)

---------------------------------------------------------------------------
(* The queries without a store: SpecFallback is the log fallback of          *)
(* count_bans_in_period and extract_banned_ips beside a log file that may    *)
(* hold undecodable bytes and may stop being openable.                       *)

FallbackLines ==
    [stamp : {Some(strftime(now))}, jail : {Some("sshd")}, word : {"Ban"},
     token : LogIPs]
    \cup [stamp : {None}, jail : {None}, word : {"0xFF"}, token : {"bytes"}]

InitFallback == Init /\ db_manager = "None"

NextFallback ==
    \/ \E line \in FallbackLines : AppendLine(line)
    \/ RotateLog
    \/ Tick
    \/ LogFails
    \/ LogRepaired

SpecFallback == InitFallback /\ [][NextFallback]_vars

---------------------------------------------------------------------------
(* parse_log_timestamp called on any text: SpecParse *)

Parse(t) ==
    /\ parse' = Some([line |-> t, exc |-> parse_text(t).exc,
                      value |-> parse_text(t).value])
    /\ UNCHANGED <<log, rows, now, db_manager, conn, geo_cache, geoip_db, config,
                   touch_order, log_synced, boot, sched, store, plot, views, passed>>

InitParse == Init /\ db_manager = "DBManager" /\ conn

NextParse == \E t \in Texts : Parse(t)

SpecParse == InitParse /\ [][NextParse]_vars

---------------------------------------------------------------------------
(* The bar plot of one period: plotting.py generate_single_period_plot.  It  *)
(* is a function of the period, of the clock and of the ban times it is      *)
(* given; here a time is a whole number of hours, before the clock when it   *)
(* is negative, and the periods are the real ones.                           *)

\* inline.py PERIODS: hour, day, week, month, quarter, year
PERIODS == {1, 24, 7 * 24, 30 * 24, 90 * 24, 365 * 24}

\* buckets
PlotBuckets(hours) ==
    IF hours <= 24 THEN hours ELSE IF hours <= 7 * 24 THEN 7 ELSE 12

\* interval, in hours: timedelta(hours=1), timedelta(days=1),
\* timedelta(days=hours * 24 / buckets); the quotient is whole for every period
PlotInterval(hours) ==
    IF hours <= 24 THEN 1
    ELSE IF hours <= 7 * 24 THEN 24
    ELSE ((hours * 24) \div PlotBuckets(hours)) * 24

\* all_bans_in_period: the times fetch_bans(since=start_time) gives back
AllBansInPeriod(stamps, start_time) == SelectSeq(stamps, LAMBDA ts : ts >= start_time)

\* the bars of the loop "for _ in range(buckets)": bar k counts the times in
\* [start_time + (k - 1) * interval, start_time + k * interval)
BucketCounts(buckets, start_time, interval, bans) ==
    [k \in 1..buckets |->
        Cardinality({i \in 1..Len(bans) :
                        /\ start_time + (k - 1) * interval <= bans[i]
                        /\ bans[i] < start_time + (k - 1) * interval + interval})]

\* the loop "for _ in range(buckets)": where each bucket starts, and its bar
generate_single_period_plot(hours, clock, stamps) ==
    LET start_time == clock - hours
        interval == PlotInterval(hours)
        bans == AllBansInPeriod(stamps, start_time)
        bucket_start(k) == start_time + (k - 1) * interval
    IN  [hours    |-> hours,
         clock    |-> clock,
         stamps   |-> stamps,
         interval |-> interval,
         starts   |-> [k \in 1..PlotBuckets(hours) |-> bucket_start(k)],
         counts   |-> BucketCounts(PlotBuckets(hours), start_time, interval, bans)]

\* the bars of generate_single_period_plot on the store as it is and at the
\* clock as it is, in ticks: rows of fetch_bans(since=start_time) with "ban" in
\* the action, their timestamps parsed back
PlotFromDb(hours) ==
    LET start_time == now - timedelta(hours)
        found == SelectSeq(fetch_bans(Some(start_time)), IsBanRow)
    IN  BucketCounts(PlotBuckets(hours), start_time, timedelta(PlotInterval(hours)),
                     [i \in 1..Len(found) |-> strptime(found[i].ts)])

\* the times of the ban rows, in hours from the clock: at the clock, one hour
\* before, a day, some days, a month, most of a year
PlotStamps == {0, -1, -24, -100, -720, -8000}

PlotInputs ==
    UNION {[1..n -> PlotStamps] : n \in 0..MaxPlotEvents}

\* handle_period_stats: one plot is drawn
Plot(hours, stamps) ==
    /\ plot' = Some(generate_single_period_plot(hours, 0, stamps))
    /\ UNCHANGED <<log, rows, now, db_manager, conn, geo_cache, geoip_db, config,
                   touch_order, log_synced, boot, sched, store, parse, views, passed>>

InitPlot == Init /\ db_manager = "DBManager" /\ conn

NextPlot == \E hours \in PERIODS, stamps \in PlotInputs : Plot(hours, stamps)

SpecPlot == InitPlot /\ [][NextPlot]_vars

---------------------------------------------------------------------------
(* The store over the life of the process: db_manager.py __init__ and close, *)
(* INSERTs that fail one at a time, and a process that is terminated inside  *)
(* a cycle and started again.  SpecStore starts where __init__ has ended in  *)
(* any of its ways and may close the store; SpecCrash is a healthy store     *)
(* with failing INSERTs and terminations.                                    *)

StoreLines ==
    [stamp : {Some(strftime(now))}, jail : {Some("sshd")}, word : {"Ban"},
     token : LogIPs]

CrashLines ==
    [stamp : {None, Some(strftime(now))}, jail : {Some("sshd")},
     word : {"Ban"}, token : {"10.0.0.1", "time"}]
    \cup [stamp : {Some(strftime(now))}, jail : {Some("sshd")},
          word : {"Found"}, token : {"10.0.0.2"}]

InitStore ==
    /\ log = <<>>
    /\ rows = <<>>
    /\ now = 0
    /\ db_manager = "DBManager"
    /\ \E fault \in InitFaults, existed \in BOOLEAN :
          LET o == DBManager_init(fault, existed)
          IN  /\ init_failed = o.init_failed
              /\ has_conn = o.has_conn
              /\ conn = o.conn
    /\ geo_cache = <<>>
    /\ geoip_db = [content |-> "old", age |-> 0]
    /\ config = [GEOIP_CACHE_SIZE |-> MAX_CACHE_SIZE, GEOIP_UPDATE_DAYS |-> STALE_DAYS,
                 MAXMIND_LICENSE_KEY |-> None]
    /\ touch_order = <<>>
    /\ log_synced = FALSE
    /\ Started
    /\ closes = <<>>
    /\ rows0 = None
    /\ parse = None
    /\ plot = None
    /\ views = {}
    /\ passed = {}

\* DBManager.close()
Close ==
    /\ Len(closes) < MaxCloses
    /\ conn' = close_conn(conn)
    /\ closes' = Append(closes, close_outcome(has_conn))
    /\ UNCHANGED <<log, rows, now, db_manager, geo_cache, geoip_db, config,
                   touch_order, log_synced, boot, sched, init_failed, has_conn,
                   rows0, calls>>

\* one cycle in which the INSERTs of the passes in bad fail
SyncFaulty(bad) ==
    /\ conn
    /\ ReadLog(log_ok, log) # None
    /\ LET st == SyncLoopBad(ReadLog(log_ok, log)[1], 1,
                             [rows |-> rows, cache |-> geo_cache,
                              order |-> touch_order], bad)
       IN  /\ Len(st.rows) <= MaxRows
           /\ rows' = st.rows
           /\ geo_cache' = st.cache
           /\ touch_order' = st.order
    /\ log_synced' = FALSE
    /\ UNCHANGED <<log, now, db_manager, conn, geoip_db, config, boot, sched,
                   store, calls>>

\* the process is terminated when the loop of a cycle has done k passes, and
\* started again: the rows committed stay, the cache of the old process is
\* gone, __init__ finds the file and the table as they were
KilledSync(k) ==
    /\ conn
    /\ ReadLog(log_ok, log) # None
    /\ k \in 0..Len(log)
    /\ LET st == ScanLines(SubSeq(ReadLog(log_ok, log)[1], 1, k))
       IN  /\ Len(st.rows) <= MaxRows
           /\ rows' = st.rows
    /\ geo_cache' = <<>>
    /\ touch_order' = <<>>
    /\ log_synced' = FALSE
    /\ rows0' = IF rows0 = None THEN Some(rows) ELSE rows0
    /\ UNCHANGED <<log, now, db_manager, conn, geoip_db, config, boot, sched,
                   init_failed, has_conn, closes, calls>>

NextStore ==
    \/ \E line \in StoreLines : AppendLine(line)
    \/ Tick
    \/ Sync
    \/ Close

SpecStore == InitStore /\ [][NextStore]_vars

\* __init__ has gone through
InitCrash == InitStore /\ ~init_failed /\ conn

NextCrash ==
    \/ \E line \in CrashLines : AppendLine(line)
    \/ Tick
    \/ Sync
    \/ \E bad \in SUBSET (1..Len(log)) \ {{}} : SyncFaulty(bad)
    \/ \E k \in 0..Len(log) : KilledSync(k)

SpecCrash == InitCrash /\ [][NextCrash]_vars

---------------------------------------------------------------------------
(* Claims *)

Ingestible(line) == SyncAction(line) # None /\ SyncIpMatch(line) # None
RowsWithKey(ts, ip) == {i \in 1..Len(rows) : rows[i].ts = ts /\ rows[i].ip = ip}

\* C1: after any sequence of sync cycles over a growing or rotated log, no two
\* rows of table bans have the same (ts, ip) pair.
C1_NoDuplicateKey ==
    \A i, j \in 1..Len(rows) :
        (rows[i].ts = rows[j].ts /\ rows[i].ip = rows[j].ip) => i = j

\* C1 witness: a synced log holds two ingestible lines with the same stamp and
\* address but another jail or another action, and the store holds one row for them.
C1_Witness ==
    /\ log_synced /\ conn
    /\ \E i, j \in 1..Len(log) :
        /\ i < j
        /\ Ingestible(log[i]) /\ Ingestible(log[j])
        /\ log[i].stamp # None /\ log[i].stamp = log[j].stamp
        /\ log[i].token = log[j].token
        /\ log[i].jail # log[j].jail \/ log[i].word # log[j].word
        /\ Cardinality(RowsWithKey(log[i].stamp[1], log[i].token)) = 1

\* C2: a sync cycle over a log that has not changed since the last cycle read it
\* inserts no row, whether or not the lines carry a stamp.
C2_RescanInsertsNothing == [][(Sync /\ log_synced) => rows' = rows]_vars

Degraded == db_manager = "DBManager" /\ ~conn
StoreMode == db_manager = "DBManager" /\ conn
LogMode == db_manager = "None"
Windows == {Some(h) : h \in Hours \ {0}}

\* C3: on a DBManager whose __init__ failed the count and the address list are
\* those of the log file fallback branch.
C3_DegradedUsesLog ==
    Degraded =>
        /\ \A h \in Hours :
            count_bans_in_period(h) = CountFromLog(now - timedelta(h))
        /\ \A sh \in SinceHours :
            extract_banned_ips(sh) = fromkeys(IpsFromLog(SinceDt(sh)), 1, <<>>)

\* C4: with store, log and clock fixed, h1 <= h2 implies
\* count_bans_in_period(h1) <= count_bans_in_period(h2), in store mode and in
\* log fallback mode, the log in any order.
C4_CountMonotone ==
    \A h1, h2 \in Hours :
        h1 <= h2 => count_bans_in_period(h1) <= count_bans_in_period(h2)

\* C4 witness: log fallback over a log that is not in time order, where the wider
\* window counts more.
C4_Witness ==
    /\ LogMode
    /\ \E i, j \in 1..Len(log) :
        /\ i < j
        /\ log[i].stamp # None /\ log[j].stamp # None
        /\ log[i].stamp[1] > log[j].stamp[1]
    /\ count_bans_in_period(1) < count_bans_in_period(2)

\* rows the window of `hours` holds, to the second as fetch_bans compares them
InWindow(r, hours) == r.ts >= strftime(now - timedelta(hours))

\* C5: in store mode count_bans_in_period(hours) is the number of stored events
\* with action Ban in the window; stored Unban events do not count.
C5_CountIsBanRows ==
    StoreMode =>
        \A h \in Hours :
            count_bans_in_period(h) =
                Cardinality({i \in 1..Len(rows) :
                                rows[i].action = "Ban" /\ InWindow(rows[i], h)})

\* C6: in store mode extract_banned_ips returns exactly the addresses with a
\* stored Ban event in the window.
C6_IpsAreBanned ==
    StoreMode =>
        /\ Range(extract_banned_ips(None)) =
               {rows[i].ip : i \in {k \in 1..Len(rows) : rows[k].action = "Ban"}}
        /\ \A sh \in Windows :
               Range(extract_banned_ips(sh)) =
                   {rows[i].ip : i \in {k \in 1..Len(rows) :
                       rows[k].action = "Ban" /\ InWindow(rows[k], sh[1])}}

\* the list extract_banned_ips collects before it removes duplicates
Collected(sh) ==
    IF db_manager # "None" THEN IpsFromDb(SinceDt(sh)) ELSE IpsFromLog(SinceDt(sh))
FirstAt(s, x) == Min({i \in 1..Len(s) : s[i] = x})

\* C7: in both modes the list extract_banned_ips returns holds no address twice,
\* holds every collected address, and lists them by first occurrence in the source.
C7_UniqueFirstSeen ==
    \A sh \in SinceHours :
        LET res == extract_banned_ips(sh)
            src == Collected(sh)
        IN  /\ \A i, j \in 1..Len(res) : res[i] = res[j] => i = j
            /\ Range(res) = Range(src)
            /\ \A i, j \in 1..Len(res) :
                   i < j => FirstAt(src, res[i]) < FirstAt(src, res[j])

\* C7 witness: the source repeats an address around another one, and the result
\* keeps the two in the order they were first seen.
C7_Witness ==
    \E sh \in SinceHours :
        LET src == Collected(sh)
        IN  /\ Len(src) >= 3
            /\ src[1] = src[3] /\ src[1] # src[2]
            /\ extract_banned_ips(sh) = <<src[1], src[2]>>

\* C8: for 0 <= h1 <= h2 the addresses of extract_banned_ips(h1) are among those
\* of extract_banned_ips(h2), and every windowed result is within the all-time one.
C8_IpsMonotone ==
    \A h1, h2 \in Hours :
        h1 <= h2 =>
            /\ Range(extract_banned_ips(Some(h1))) \subseteq
                   Range(extract_banned_ips(Some(h2)))
            /\ Range(extract_banned_ips(Some(h1))) \subseteq
                   Range(extract_banned_ips(None))

\* C9: the geo cache never holds more entries than the configured capacity
\* config.GEOIP_CACHE_SIZE.
C9_CacheWithinConfigured == Len(geo_cache) <= config.GEOIP_CACHE_SIZE

\* the cached address whose last touch lies furthest back
LruVictim ==
    CHOOSE ip \in CacheKeys(geo_cache) :
        \A other \in CacheKeys(geo_cache) :
            FirstAt(touch_order, ip) <= FirstAt(touch_order, other)

\* C10: a miss on a full cache evicts exactly the least recently touched entry,
\* hits counting as touches; an entry just read by a hit survives the next
\* eviction (capacity >= 2).
C10_StrictLru ==
    /\ \A ip \in IPs \ CacheKeys(geo_cache) :
        Len(geo_cache) = MAX_CACHE_SIZE =>
            LET after == get_geo_info_cache(geo_cache, ip)
            IN  /\ CacheKeys(geo_cache) \ CacheKeys(after) = {LruVictim}
                /\ CacheKeys(after) \ CacheKeys(geo_cache) = {ip}
                /\ Len(after) = MAX_CACHE_SIZE
    /\ \A hit \in CacheKeys(geo_cache) : \A miss \in IPs \ CacheKeys(geo_cache) :
        MAX_CACHE_SIZE >= 2 =>
            hit \in CacheKeys(get_geo_info_cache(get_geo_info_cache(geo_cache, hit), miss))

\* C10 witness: the cache is full and has evicted the address touched longest ago.
C10_Witness ==
    /\ Len(geo_cache) = MAX_CACHE_SIZE
    /\ Len(touch_order) > MAX_CACHE_SIZE
    /\ Head(touch_order) \notin CacheKeys(geo_cache)

\* the names a lookup can put into a record
GeoNames == {"Germany", "France", "Berlin", "Unknown"}

\* C11: get_geo_info never raises: for every address, a malformed one, one the
\* lookup file does not hold, and with the lookup file missing, it returns a
\* record with country and city both set, "Unknown" for what was not resolved.
C11_NeverRaises ==
    \A ip \in IPs :
        LET res == get_geo_info(geo_cache, ip)
            found == ReaderCity(ip)
        IN  /\ get_geo_info_raises(geo_cache, ip) = None
            /\ res.ip = ip
            /\ res.country \in GeoNames /\ res.city \in GeoNames
            /\ ip \notin CacheKeys(geo_cache) =>
                   /\ found.exc # "none" =>
                          res.country = "Unknown" /\ res.city = "Unknown"
                   /\ found.country = None => res.country = "Unknown"
                   /\ found.city = None => res.city = "Unknown"
                   /\ found.country # None => res.country = found.country[1]
                   /\ found.city # None => res.city = found.city[1]

\* C11 witness: the lookup file is there, and the cache holds what get_geo_info
\* returned for a malformed address and for an address whose city is not known.
C11_Witness ==
    /\ Readable
    /\ \E i, j \in 1..Len(geo_cache) :
           /\ geo_cache[i] = [country |-> "Unknown", city |-> "Unknown", ip |-> "999.0.0.4"]
           /\ geo_cache[j] = [country |-> "France", city |-> "Unknown", ip |-> "10.0.0.2"]

\* the stored file counts as stale by the configured threshold, or is missing
StaleConfigured ==
    geoip_db.content = "none" \/ geoip_db.age >= config.GEOIP_UPDATE_DAYS

\* C12: update_geoip_db downloads nothing, changes no file and sends no
\* notification when the file exists and its age is below the configured
\* config.GEOIP_UPDATE_DAYS; when the file is missing or at least that old and
\* a key is configured, it attempts the download.
C12_GateUsesConfigured ==
    [][Gate =>
          /\ ~StaleConfigured =>
                 /\ pc' = "returned"
                 /\ alerts' = alerts
                 /\ geoip_db' = geoip_db /\ tar' = tar
                 /\ download_started' = FALSE
          /\ (StaleConfigured /\ config.MAXMIND_LICENSE_KEY # None) => pc' = "get"]_vars

\* C13: with the file stale or missing and no MAXMIND_LICENSE_KEY configured,
\* update_geoip_db attempts no download, leaves the database file and the
\* archive path as they are, sends one failure notification and returns.
C13_NoKeyStopsRefresh ==
    [][(Gate /\ StaleConfigured /\ config.MAXMIND_LICENSE_KEY = None) =>
          /\ pc' = "returned"
          /\ download_started' = FALSE
          /\ geoip_db' = geoip_db /\ tar' = tar
          /\ Len(alerts') = Len(alerts) + 1
          /\ alerts'[Len(alerts')].kind = "fail"]_vars

\* C14: at no moment of update_geoip_db, a terminated process and an
\* extraction that fails part-way included, does the canonical path hold a
\* partially written file: it holds the previous file, no file or the new file.
C14_NoPartialFile == geoip_db.content \in {"old", "none", "new"}

Returned == pc \in {"returned", "raised", "started"}

\* C15: when update_geoip_db has started a download and has returned, the
\* archive file does not exist, whatever the outcome was.
C15_ArchiveRemoved == (Returned /\ download_started) => tar = "none"

\* C15 witness: the transfer broke off after a partial write, the function
\* has returned and the archive is gone.
C15_Witness ==
    /\ pc = "returned"
    /\ download_started
    /\ err = Some("ClientPayloadError")
    /\ tar = "none"

DownloadErrors == {"ClientResponseError", "ClientPayloadError", "TimeoutError"}

\* C16: if the download fails or times out, the database file keeps its
\* content and modification time, a failure notification is sent and
\* update_geoip_db does not raise.
C16_DownloadFailureKeepsFile ==
    (err # None /\ err[1] \in DownloadErrors) =>
        /\ geoip_db = file0
        /\ pc # "raised"
        /\ pc \in {"finally", "returned", "started"} =>
               Len(alerts) = 1 /\ alerts[1].kind = "fail"

\* C16 witness: the download of a run over an existing file timed out, and
\* startup went on with the file as it was.
C16_Witness ==
    /\ pc = "started"
    /\ err = Some("TimeoutError")
    /\ file0.content = "old" /\ geoip_db = file0
    /\ Len(alerts) = 1 /\ alerts[1].kind = "fail"

\* C17: a run of update_geoip_db that gets past the staleness gate has sent
\* exactly one notification when it returns, a success notification iff the
\* new lookup file was extracted to the canonical path; a notification that
\* is not delivered raises nothing and is not followed by a second one.
C17_OneNotification ==
    (Returned /\ ~Fresh(file0, config)) =>
        /\ pc # "raised"
        /\ Len(alerts) = 1
        /\ alerts[1].kind = "ok" <=> geoip_db.content = "new"

\* C17 witness: the new file was extracted, the success notification was not
\* delivered, and the function returned with that one notification.
C17_Witness ==
    /\ pc = "returned"
    /\ geoip_db.content = "new"
    /\ alerts = <<Alert("ok", FALSE)>>

\* C18: the periodic sync driver calls the log scanner infinitely often: an
\* exception raised inside a cycle is caught by periodic_log_sync and the next
\* cycle starts after the sleep.
C18_CyclesForever == []<><<\E i \in 1..Len(drivers) : CycleBegin(i)>>_vars

\* C18 witness: a cycle has ended with an exception, and a later cycle has
\* read the log and is scanning.
C18_Witness ==
    /\ "raised" \in outcomes
    /\ drivers = <<"scan">>

Scanning == {i \in 1..Len(drivers) : drivers[i] = "scan"}

\* C19: at most one sync cycle is in progress at any time: there is one driver
\* task, its cycle ends before it sleeps and its next cycle begins only after
\* that sleep, and the store changes only in the step that ends the one
\* running scan.
C19_OneCycleAtATime ==
    /\ [](/\ Len(drivers) <= 1
          /\ Cardinality(Scanning) <= 1
          /\ read_lines # None => Scanning # {})
    /\ [][\A i \in 1..Len(drivers) :
              /\ drivers[i] = "scan" => drivers'[i] \in {"scan", "sleep"}
              /\ (drivers'[i] = "scan" /\ drivers[i] # "scan") => drivers[i] = "cycle"
              /\ (drivers'[i] = "cycle" /\ drivers[i] # "cycle") => drivers[i] = "sleep"]_vars
    /\ [][rows' # rows =>
              \E j \in Scanning : Scanning = {j} /\ drivers'[j] = "sleep"]_vars

\* C19 witness: the driver is in a scan that is not its first: an earlier
\* cycle has put rows into the store.
C19_Witness ==
    /\ drivers = <<"scan">>
    /\ "done" \in outcomes
    /\ rows # <<>>

KeysOf(rs) == {<<rs[i].ts, rs[i].ip>> : i \in 1..Len(rs)}

\* C20: if the log file cannot be opened or read, sync_log_to_db returns
\* without raising and leaves the store and the geo cache as they are; a cycle
\* that finds the file readable puts the events it read into the store.
C20_UnreadableLogSkipsCycle ==
    [][\A i \in 1..Len(drivers) :
          /\ (CycleBegin(i) /\ ~log_ok) =>
                 /\ rows' = rows /\ geo_cache' = geo_cache
                 /\ read_lines' = None
                 /\ drivers'[i] = "sleep"
          /\ (CycleBegin(i) /\ log_ok /\ db_manager # "None") =>
                 read_lines' = Some(log)
          /\ (CycleEnd(i) /\ conn) =>
                 \A n \in 1..Len(read_lines[1]) :
                     LET line == read_lines[1][n]
                     IN  (Ingestible(line) /\ line.stamp # None) =>
                             <<line.stamp[1], line.token>> \in KeysOf(rows')]_vars

\* C20 witness: a cycle has found the log unreadable, the log can be read
\* again, and a cycle has since put both of its events into the store.
C20_Witness ==
    /\ "unreadable" \in outcomes
    /\ log_ok
    /\ drivers = <<"sleep">>
    /\ Len(log) = 2 /\ log[1] # log[2]
    /\ \A n \in 1..Len(log) : <<log[n].stamp[1], log[n].token>> \in KeysOf(rows)

\* C21: on a store whose __init__ has logged its failure, for as long as the
\* process lives, ban_exists is False for every key, fetch_bans is empty and
\* insert_ban stores nothing.
C21_FailedInitIsNoOp ==
    init_failed =>
        /\ fetch_bans(None) = <<>>
        /\ \A ts \in 0..now, ip \in LogIPs : ~ban_exists(rows, conn, ts, ip)
        /\ \A ip \in LogIPs :
              insert_ban(rows, conn, ip, "sshd", "Ban", "Unknown", "Unknown", now) = rows

\* C22: fetch_bans(since) is the rows whose time is at or after since, in the
\* order of insertion and each once; without since it is all the rows.
C22_FetchIsWindow ==
    StoreMode =>
        /\ fetch_bans(None) = rows
        /\ \A since \in 0..now :
              fetch_bans(Some(since)) = SelectSeq(rows, LAMBDA r : strptime(r.ts) >= since)

IsPrefix(s, t) == Len(s) <= Len(t) /\ SubSeq(t, 1, Len(s)) = s

\* C23: whatever step is taken (a sync cycle, a query), the result of the
\* unwindowed fetch_bans() before the step is a prefix of its result after
\* the step: no row is changed, removed or overtaken.
C23_AppendOnly == [][IsPrefix(fetch_bans(None), fetch_bans(None)')]_vars

C23_Witness ==
    /\ Len(fetch_bans(None)) >= 2
    /\ fetch_bans(None)[1].ip # fetch_bans(None)[2].ip

\* handle_comparison_stats: previous_bans
previous_bans(hours) == count_bans_in_period(2 * hours) - count_bans_in_period(hours)

\* C24: in store mode the previous-period value of compare is never negative
\* and is the number of counted rows whose time lies in
\* [now - 2*hours, now - hours).
C24_PreviousIsWindow ==
    StoreMode =>
        \A hours \in {h \in Hours : h > 0 /\ 2 * h \in Hours} :
            /\ previous_bans(hours) >= 0
            /\ previous_bans(hours) =
                  Cardinality({i \in 1..Len(rows) :
                                  /\ IsBanRow(rows[i])
                                  /\ strptime(rows[i].ts) >= now - timedelta(2 * hours)
                                  /\ strptime(rows[i].ts) < now - timedelta(hours)})

\* the length of a bucket the bucket policy names, in hours
PolicyInterval(hours) ==
    IF hours <= 24 THEN 1 ELSE IF hours <= 7 * 24 THEN 24 ELSE hours \div 12

\* C25: the buckets of a plot are contiguous half-open intervals of the
\* policy's length, oldest first, from now - hours up to now, and each bar is
\* the number of ban times inside its bucket, so that every event of the
\* period is counted once.
C25_BucketsCoverPeriod ==
    plot # None =>
        LET p == plot[1]
            n == Len(p.starts)
            period == {i \in 1..Len(p.stamps) :
                          p.clock - p.hours <= p.stamps[i] /\ p.stamps[i] < p.clock}
        IN  /\ p.interval = PolicyInterval(p.hours)
            /\ p.starts[1] = p.clock - p.hours
            /\ \A k \in 1..(n - 1) : p.starts[k + 1] = p.starts[k] + p.interval
            /\ p.starts[n] + p.interval = p.clock
            /\ \A i \in period :
                  \E k \in 1..n :
                      /\ p.starts[k] <= p.stamps[i]
                      /\ p.stamps[i] < p.starts[k] + PolicyInterval(p.hours)
                      /\ p.counts[k] =
                            Cardinality({j \in period :
                                /\ p.starts[k] <= p.stamps[j]
                                /\ p.stamps[j] < p.starts[k] + PolicyInterval(p.hours)})

\* the store a full cycle over the log leaves, begun with the rows rs and the
\* cache of a process just started
CycleFrom(rs) == SyncLoop(log, 1, [rows |-> rs, cache |-> <<>>, order |-> <<>>]).rows

\* C26: once the process has been terminated inside a cycle and started
\* again, a full cycle over the log brings the store to the (timestamp,
\* address) set that an uninterrupted cycle over the same log, begun with the
\* rows the terminated cycle found, would have left, each key once.
C26_CrashSafe ==
    (rows0 # None /\ StoreMode /\ ReadLog(log_ok, log) # None) =>
        /\ KeysOf(CycleFrom(rows)) = KeysOf(CycleFrom(rows0[1]))
        /\ Cardinality(KeysOf(CycleFrom(rows))) = Len(CycleFrom(rows))

Stamped(line) == parse_log_timestamp(line) # None
LineKey(line) == <<strftime(SyncTs(line)), SyncIpMatch(line)[1]>>

\* the rows rs a cycle leaves hold every line but those of the passes in bad
Complete(rs, bad) ==
    /\ \A n \in (1..Len(log)) \ bad :
          (Ingestible(log[n]) /\ Stamped(log[n])) => LineKey(log[n]) \in KeysOf(rs)
    /\ KeysOf(rs) \subseteq
          KeysOf(rows) \cup {LineKey(log[n]) : n \in {m \in 1..Len(log) : Ingestible(log[m])}}
    /\ IsPrefix(rows, rs)

Unreadable == ReadLog(log_ok, log) = None

\* C28: without a store, when the log file cannot be read, the count is 0 and
\* the address list is empty for every window.
C28_UnreadableIsEmpty ==
    (LogMode /\ Unreadable) =>
        /\ \A hours \in Hours : count_bans_in_period(hours) = 0
        /\ \A sh \in SinceHours : extract_banned_ips(sh) = <<>>

\* C29: no call of close() raises, on a healthy store or on one whose
\* __init__ has failed, and a call after the first changes nothing but the
\* record of the calls.
C29_CloseIdempotent ==
    /\ [](\A i \in 1..Len(closes) : closes[i] = "ok")
    /\ [][(Close /\ closes # <<>>) =>
             UNCHANGED <<rows, conn, has_conn, init_failed, log, geo_cache>>]_vars
    /\ [](close_conn(close_conn(conn)) = close_conn(conn))

C29_Witness ==
    /\ Len(closes) = 2
    /\ init_failed
    /\ ~has_conn

\* C30: parse_log_timestamp raises nothing and returns the second of the
\* first plain match, its fraction left out, when that is a date-time;
\* otherwise the second of the first ISO 8601 match, its Z left out, when
\* that is a date-time; otherwise none.
C30_ParseFirstValid ==
    parse # None =>
        LET t == parse[1].line
            ok(m) == m # None /\ m[1].valid
        IN  /\ parse[1].exc = None
            /\ parse[1].value =
                  IF ok(t.plain) THEN Some(t.plain[1].text * TicksPerSec)
                  ELSE IF ok(t.iso) THEN Some(t.iso[1].text * TicksPerSec)
                  ELSE None

C30_Witness ==
    /\ parse # None
    /\ parse[1].line.plain # None
    /\ ~parse[1].line.plain[1].valid
    /\ parse[1].line.iso # None
    /\ parse[1].line.iso[1].valid
    /\ parse[1].line.iso[1].tail
    /\ parse[1].value = Some(parse[1].line.iso[1].text * TicksPerSec)

\* the lines a scan of the whole file counts: ban-classified, stamped, at or
\* after the cutoff
FullScan(lines, since_dt) ==
    Cardinality({i \in 1..Len(lines) :
                    /\ InBanCap(lines[i]) \/ InBanLow(lines[i])
                    /\ parse_log_timestamp(lines[i]) # None
                    /\ parse_log_timestamp(lines[i])[1] >= since_dt})

\* the timestamps of the lines never go back
Chrono(lines) ==
    \A i, j \in 1..Len(lines) :
        (i < j /\ parse_log_timestamp(lines[i]) # None
               /\ parse_log_timestamp(lines[j]) # None)
            => parse_log_timestamp(lines[i])[1] <= parse_log_timestamp(lines[j])[1]

\* C31: the count of the log fallback is never above the count of a scan of
\* the whole file, and is that count when the timestamps of the log never
\* go back.
C31_ReverseScanIsFullScan ==
    LogMode =>
        \A hours \in Hours :
            LET since_dt == now - timedelta(hours)
            IN  /\ count_bans_in_period(hours) <= FullScan(log, since_dt)
                /\ Chrono(log) => count_bans_in_period(hours) = FullScan(log, since_dt)

C31_Witness ==
    /\ LogMode
    /\ Len(log) = 2
    /\ Chrono(log)
    /\ InBanCap(log[1]) /\ InBanCap(log[2])
    /\ parse_log_timestamp(log[1]) # None
    /\ parse_log_timestamp(log[1])[1] < now - timedelta(1)
    /\ parse_log_timestamp(log[2]) # None
    /\ parse_log_timestamp(log[2])[1] >= now - timedelta(1)
    /\ count_bans_in_period(1) = 1

\* the first line of the log the scanner gives the key k
FirstWithKey(k) ==
    Min({j \in 1..Len(log) : Ingestible(log[j]) /\ LineKey(log[j]) = k})

\* C32: of the ingestible lines of one cycle that have the same second and
\* the same address, the first in the log is the one stored, with its own
\* jail and action; an Unban in the second of its Ban is not stored.
C32_FirstOccurrenceWins ==
    (StoreMode /\ ReadLog(log_ok, log) # None) =>
        \A i \in 1..Len(log) :
            (Ingestible(log[i]) /\ LineKey(log[i]) \notin KeysOf(rows)) =>
                LET k    == LineKey(log[i])
                    new  == sync_log_to_db.rows
                    with == {j \in 1..Len(new) : <<new[j].ts, new[j].ip>> = k}
                IN  /\ Cardinality(with) = 1
                    /\ \A j \in with :
                          /\ new[j].jail = JailOf(log[FirstWithKey(k)])
                          /\ new[j].action = SyncAction(log[FirstWithKey(k)])[1]

C32_Witness ==
    /\ StoreMode
    /\ log_synced
    /\ \E i, j \in 1..Len(log) :
          /\ i < j
          /\ Stamped(log[i]) /\ Stamped(log[j])
          /\ SyncAction(log[i]) = Some("Ban")
          /\ SyncAction(log[j]) = Some("Unban")
          /\ LineKey(log[i]) = LineKey(log[j])
          /\ FirstWithKey(LineKey(log[i])) = i
          /\ Cardinality(RowsWithKey(LineKey(log[i])[1], LineKey(log[i])[2])) = 1
          /\ \A r \in RowsWithKey(LineKey(log[i])[1], LineKey(log[i])[2]) :
                rows[r].action = "Ban"

\* a line the fallback classifies as a ban
BanLine(line) == InBanCap(line) \/ InBanLow(line)

\* C34: for a chronological log whose ban lines all have a timestamp and an
\* address, once the log is synced into a healthy store the count from the
\* store is the count of the log fallback, for every hours at the same time.
C34_StoreAndLogAgree ==
    ( /\ StoreMode
      /\ log_synced
      /\ Chrono(log)
      /\ \A i \in 1..Len(log) :
            BanLine(log[i]) => Stamped(log[i]) /\ SyncIpMatch(log[i]) # None )
    => \A hours \in Hours :
          CountFromDb(now - timedelta(hours)) = CountFromLog(now - timedelta(hours))

RECURSIVE SumSeq(_)
SumSeq(counts) == IF counts = <<>> THEN 0 ELSE Head(counts) + SumSeq(Tail(counts))

\* C38: with no row dated later than the clock, the bars of
\* generate_single_period_plot add up to count_bans_in_period(hours), for
\* every period of PERIODS, on the same store at the same time.
C38_BarsAddUpToCount ==
    (StoreMode /\ \A i \in 1..Len(rows) : strptime(rows[i].ts) <= now) =>
        \A hours \in PERIODS :
            SumSeq(PlotFromDb(hours)) = count_bans_in_period(hours)

\* the success message of update_geoip_db is among the messages sent
Installed == \E i \in 1..Len(alerts) : alerts[i].kind = "ok"

\* C36: right after update_geoip_db has installed a new lookup file and sent
\* the success message, the file is fresh, so a further call returns at the
\* guard, whatever modification time the archive gave the file.
C36_InstalledIsFresh ==
    (pc = "returned" /\ Installed /\ geoip_db.content = "new") => Fresh(geoip_db, config)

\* C37: the sync task is created only after update_geoip_db has returned, so
\* no cycle exists while the lookup file is downloaded or extracted; and the
\* refresh does return: it ends in no exception that on_startup would pass on
\* instead of creating the task.
C37_StartupOrder ==
    /\ pc \in Running \cup {"enter"} => drivers = <<>>
    /\ drivers # <<>> => pc = "started"
    /\ pc # "raised"

\* the record the cache holds for ip
Cached(c, ip) == c[CacheIndex(c, ip)]

\* C35: a failed lookup is cached like a successful one: every call of
\* get_geo_info leaves its address in the cache; a cached address is answered
\* from the cache; a call leaves every other record as it is, or evicts it
\* because the cache is full and the address of the call is new; and the
\* arrival of a valid lookup file changes no record and no answer.
C35_FailuresAreCached ==
    /\ [](\A ip \in IPs :
            LET c1 == get_geo_info_cache(geo_cache, ip)
            IN  /\ ip \in CacheKeys(c1)
                /\ Cached(c1, ip) = get_geo_info(geo_cache, ip)
                /\ ip \in CacheKeys(geo_cache) =>
                      get_geo_info(geo_cache, ip) = Cached(geo_cache, ip)
                /\ \A other \in CacheKeys(geo_cache) :
                      IF other \in CacheKeys(c1)
                      THEN Cached(c1, other) = Cached(geo_cache, other)
                      ELSE ip \notin CacheKeys(geo_cache) /\ Len(geo_cache) = MAX_CACHE_SIZE)
    /\ [][Reinstall =>
              /\ geo_cache' = geo_cache
              /\ \A ip \in CacheKeys(geo_cache) :
                    get_geo_info(geo_cache, ip)' = get_geo_info(geo_cache, ip)]_vars

\* C35 witness: the lookup file is there and holds Germany/Berlin for
\* 10.0.0.1, and the call answers Unknown/Unknown from the cache.
C35_Witness ==
    /\ Readable
    /\ Lookup("10.0.0.1").country = "Germany"
    /\ "10.0.0.1" \in CacheKeys(geo_cache)
    /\ get_geo_info(geo_cache, "10.0.0.1").country = "Unknown"
    /\ get_geo_info(geo_cache, "10.0.0.1").city = "Unknown"

\* C33: a cycle has no suspension point between the read of the log and its
\* last insert: no handler has found the scanner inside a cycle, and while a
\* cycle is inside, a step is a pass of its loop, its return, or the daemon
\* at the log file: no handler runs and no other task moves.
C33_NoSuspensionInCycle ==
    /\ []("inside" \notin views)
    /\ [][Scanning # {} =>
              /\ views' = views
              /\ Len(drivers') = Len(drivers)
              /\ \A j \in 1..Len(drivers) : j \notin Scanning => drivers'[j] = drivers[j]
              /\ rows' # rows => \E i \in Scanning : CycleLine(i)]_vars

\* C33 witness: the first cycle has stored the first of its two events and
\* has the second before it, and a handler has run before it and none since.
C33_Witness ==
    /\ drivers = <<"scan">>
    /\ outcomes = {}
    /\ Len(rows) = 1
    /\ read_lines # None /\ Len(read_lines[1]) = 1
    /\ SyncLine(read_lines[1][1],
                [rows |-> rows, cache |-> geo_cache, order |-> touch_order]).rows # rows
    /\ views = {"outside"}

\* C39: a handler behind AdminMiddleware is invoked only for an event whose
\* user is in the admin list; for every other event, one without a user
\* included, the handler is not invoked and the middleware returns without
\* raising.
C39_AccessControl ==
    \A c \in passed :
        /\ c.handler => c.user # None /\ c.user[1] \in ADMINS
        /\ (c.user = None \/ ~c.handler) => c.end = "returned"

====
